---- MODULE Spec2Model ----
(***************************************************************************)
(* Model of pkg/reconciler/route/traffic/rollout.go: the gradual rollout   *)
(* state of a route (Rollout, ConfigurationRollout, RevisionRollout) and   *)
(* the functions that validate it, merge it with the previous state        *)
(* (Step, stepConfig) and redistribute percentages (adjustPercentage,      *)
(* stepRevisions).                                                         *)
(*                                                                         *)
(* Conventions.                                                            *)
(*  - Go slices are 0-based, TLA+ sequences 1-based: a Go index k is the   *)
(*    TLA+ index k+1.  Loop counters keep their Go (0-based) values.       *)
(*  - Configuration names and tags are modelled by naturals whose order    *)
(*    stands for Go's string order; tag 0 is the empty (default) tag.      *)
(*  - A *Rollout is a record with a nil flag and the Configurations.       *)
(*  - A function that mutates its argument through a pointer returns the   *)
(*    mutated value; a run-time panic (index out of range) is an explicit  *)
(*    panic flag in the result.                                            *)
(***************************************************************************)
EXTENDS Integers, Sequences, FiniteSets, TLC

\* cur, prev, nowTS: the arguments of Step (prev is adjusted in place by it);
\* ret: the value returned by the last call; target: the configuration handed to
\* adjustPercentage or stepRevisions; pc: "start", "done" or "panic";
\* op: the function called last; before: the mutable argument as it was
\* before the last call; args: the other arguments of the calls made.
VARIABLES cur, prev, nowTS, ret, target, pc, op, before, args

vars == <<cur, prev, nowTS, ret, target, pc, op, before, args>>

(***************************************************************************)
(* Data model                                                              *)
(***************************************************************************)

\* RevisionRollout{RevisionName, Percent}
RevisionRollout(name, percent) == [RevisionName |-> name, Percent |-> percent]

\* ConfigurationRollout with every timing field at its Go zero value.
ConfigurationRollout(name, tag, percent, revisions) ==
  [ConfigurationName |-> name, Tag |-> tag, Percent |-> percent,
   Revisions |-> revisions, Deadline |-> 0, StartTime |-> 0,
   NextStepTime |-> 0, StepDuration |-> 0, StepSize |-> 0]

\* &Rollout{Configurations: cfgs}
Rollout(cfgs) == [nil |-> FALSE, Configurations |-> cfgs]

\* (*Rollout)(nil)
NilRollout == [nil |-> TRUE, Configurations |-> <<>>]

\* Done: zero or just one revision.
Done(c) == Len(c.Revisions) < 2

(***************************************************************************)
(* Validate                                                                *)
(***************************************************************************)

\* The inner loop of Validate: tot += r.Percent for the revisions k.. of revs.
RECURSIVE tot(_, _, _)
tot(revs, k, acc) ==
  IF k > Len(revs) THEN acc ELSE tot(revs, k + 1, acc + revs[k].Percent)

\* One iteration of Validate's outer loop: TRUE when the configuration passes.
\* (validateConfigNoLimit: the same without the limit of 100.)
validateConfigNoLimit(c) == tot(c.Revisions, 1, 0) = c.Percent
validateConfig(c) ==
  /\ ~(c.Percent > 100)
  /\ tot(c.Revisions, 1, 0) = c.Percent

\* Validate: the first failing configuration returns false.
RECURSIVE validateFrom(_, _)
validateFrom(cfgs, k) ==
  IF k > Len(cfgs) THEN TRUE
  ELSE IF ~validateConfig(cfgs[k]) THEN FALSE
  ELSE validateFrom(cfgs, k + 1)

Validate(r) == validateFrom(r.Configurations, 1)

(***************************************************************************)
(* ObserveReady and computeProperties                                      *)
(***************************************************************************)

\* const durationSecs = 120.0
durationSecs == 120

\* time.Second: the number of units of a time.Duration in one second. Go
\* counts nanoseconds, 1e9 to the second; the clock here is coarser, which
\* keeps every timestamp within the range of the integers.
Second == 2

\* math.Ceil(a / b) for a whole a and a whole b > 0.
ceilDiv(a, b) == IF a <= 0 THEN 0 ELSE ((a - 1) \div b) + 1

\* math.Max(1, math.Ceil(time.Duration(nowTS - c.StartTime).Seconds()))
minStepSec(c, now) ==
  LET secs == ceilDiv(now - c.StartTime, Second) IN
  IF secs < 1 THEN 1 ELSE secs

\* numSteps as the fraction num / den: durationSecs / minStepSec, or
\* Percent - 1 when Percent is smaller than that.
numSteps(c, minStep, duration) ==
  IF c.Percent * minStep < duration
  THEN [num |-> c.Percent - 1, den |-> 1]
  ELSE [num |-> duration, den |-> minStep]

\* stepSize := math.Floor((pf - 1) / numSteps)
stepSize(c, minStep, duration) ==
  LET n == numSteps(c, minStep, duration) IN
  ((c.Percent - 1) * n.den) \div n.num

\* stepDuration := math.Ceil(durationSecs / numSteps)
stepDuration(c, minStep, duration) ==
  LET n == numSteps(c, minStep, duration) IN
  ceilDiv(duration * n.den, n.num)

\* c.computeProperties(nowTS, minStepSec, durationSecs), for Percent >= 2
\* (numSteps is 0 for Percent 1). The float64 results are these whole numbers
\* for every Percent in 2..100 and minStepSec in 1..12; at minStepSec 13 the
\* rounding of 120/13 makes the float64 stepDuration 14.
computeProperties(c, now, minStep, duration) ==
  [c EXCEPT !.StepDuration = stepDuration(c, minStep, duration),
            !.StepSize = stepSize(c, minStep, duration),
            !.NextStepTime = now + stepDuration(c, minStep, duration) * Second]

\* The body of the loop of ObserveReady for configuration c.
observe(c, now) ==
  IF c.StepDuration = 0 /\ c.StartTime > 0
  THEN computeProperties(c, now, minStepSec(c, now), durationSecs)
  ELSE c

\* r.ObserveReady(nowTS): r after the call.
ObserveReady(r, now) ==
  [r EXCEPT !.Configurations =
     [i \in 1..Len(r.Configurations) |-> observe(r.Configurations[i], now)]]

(***************************************************************************)
(* adjustPercentage                                                        *)
(***************************************************************************)

\* The loop of the diff < 0 case; i is the Go index. Returns the revisions
\* with the partial subtraction applied, and the final i.
RECURSIVE drainOldest(_, _, _)
drainOldest(revs, diff, i) ==
  IF diff > 0 /\ i < Len(revs)
  THEN IF revs[i + 1].Percent > diff
       THEN [revs |-> [revs EXCEPT ![i + 1].Percent = @ - diff], i |-> i]
       ELSE drainOldest(revs, diff - revs[i + 1].Percent, i + 1)
  ELSE [revs |-> revs, i |-> i]

\* case diff > 0: the last revision gets the difference.
\* (growOldest: the first revision gets it.)
growOldest(revs, diff) == [revs EXCEPT ![1].Percent = @ + diff]
growNewest(revs, diff) == [revs EXCEPT ![Len(revs)].Percent = @ + diff]

\* adjustPercentage(goal, cr): cr after the call (cr.Percent is not written)
\* and whether the call panicked (cr.Revisions[-1] on an empty list).
adjustPercentage(goal, cr) ==
  LET diff == goal - cr.Percent IN
  IF goal = 0
  THEN [cr |-> [cr EXCEPT !.Revisions = <<>>], panic |-> FALSE]
  ELSE IF diff > 0
  THEN IF Len(cr.Revisions) = 0
       THEN [cr |-> cr, panic |-> TRUE]
       ELSE [cr |-> [cr EXCEPT !.Revisions = growNewest(cr.Revisions, diff)],
             panic |-> FALSE]
  ELSE IF diff < 0
  THEN LET d == drainOldest(cr.Revisions, -diff, 0) IN
       [cr |-> [cr EXCEPT !.Revisions = SubSeq(d.revs, d.i + 1, Len(d.revs))],
        panic |-> FALSE]
  ELSE [cr |-> cr, panic |-> FALSE]

(***************************************************************************)
(* stepRevisions                                                           *)
(***************************************************************************)

\* The guard: not yet ready to adjust the steps, or done.
notDue(goal, now) == now < goal.NextStepTime \/ Len(goal.Revisions) < 2

\* The loop over readPos; positions are Go indices.
RECURSIVE drainOlder(_, _, _, _)
drainOlder(revs, remaining, readPos, writePos) ==
  IF remaining > 0 /\ readPos >= 0
  THEN IF revs[readPos + 1].Percent > remaining
       THEN [revs |-> [revs EXCEPT ![readPos + 1].Percent = @ - remaining],
             writePos |-> writePos]
       ELSE drainOlder(revs, remaining - revs[readPos + 1].Percent,
                       readPos - 1, writePos - 1)
  ELSE [revs |-> revs, writePos |-> writePos]

\* goal.NextStepTime = nowTS + goal.StepDuration
\* (nextStepTimeStale: the next time is left as it was.)
nextStepTimeStale(goal, now) == goal.NextStepTime
nextStepTime(goal, now) == now + goal.StepDuration

\* In case we collected too much: the revision at w (the newest) holds at
\* most the target's Percent.
\* (capNone: the newest revision keeps whatever was added to it.)
capNone(revs, w, percent) == revs
capNewest(revs, w, percent) ==
  IF revs[w].Percent > percent
  THEN [revs EXCEPT ![w].Percent = percent]
  ELSE revs

\* stepRevisions(goal, nowTS): goal after the call, and the whole backing
\* array of goal.Revisions after the call (the caller's slice, which shares
\* the array, keeps its own length).
stepRevisions(goal, now) ==
  IF notDue(goal, now)
  THEN [cr |-> goal, array |-> goal.Revisions]
  ELSE LET revLen == Len(goal.Revisions)
           d == drainOlder(goal.Revisions, goal.StepSize, revLen - 2, revLen - 1)
           w == d.writePos + 1
           moved == [d.revs EXCEPT ![w] = d.revs[revLen]]
           added == [moved EXCEPT ![w].Percent = @ + goal.StepSize]
           capped == capNewest(added, w, goal.Percent)
       IN [cr |-> [goal EXCEPT !.Revisions = SubSeq(capped, 1, w),
                               !.NextStepTime = nextStepTime(goal, now)],
           array |-> capped]

(***************************************************************************)
(* stepConfig                                                              *)
(***************************************************************************)

\* Go backwards and find the first revision with traffic > 0; reduce it by
\* one. i is the Go index.
RECURSIVE stealOneFrom(_, _)
stealOneFrom(revs, i) ==
  IF i < 0 THEN revs
  ELSE IF revs[i + 1].Percent > 0
  THEN [revs EXCEPT ![i + 1].Percent = @ - 1]
  ELSE stealOneFrom(revs, i - 1)

\* (stealNone: nothing is taken from prev's revisions.)
stealNone(revs) == revs
stealOne(revs) == stealOneFrom(revs, Len(revs) - 1)

\* Copy the non 0% objects over.
\* (keepAll: every revision is copied over, drained or not.)
keepAll(revs) == revs
nonZero(revs) == SelectSeq(revs, LAMBDA r : r.Percent # 0)

\* The rollout continues: prev's revisions and timing are taken over and the
\* step function runs on the result, whose Revisions share prev's array.
continueRollout(ret0, prev1, now) ==
  LET r == [ret0 EXCEPT !.Revisions = prev1.Revisions,
                        !.Deadline = prev1.Deadline,
                        !.NextStepTime = prev1.NextStepTime,
                        !.StepDuration = prev1.StepDuration,
                        !.StartTime = prev1.StartTime]
      s == stepRevisions(r, now)
  IN [ret |-> s.cr,
      prev |-> [prev1 EXCEPT !.Revisions = s.array],
      panic |-> FALSE]

\* A new rollout starts: stamp the start time, move 1% to the new revision.
startRollout(ret0, goal, prev1, now) ==
  LET stolen == stealOne(prev1.Revisions)
      out == nonZero(stolen)
      goalRev == [goal.Revisions[1] EXCEPT !.Percent = 1]
  IN [ret |-> [ret0 EXCEPT !.StartTime = now,
                           !.Revisions = Append(out, goalRev)],
      prev |-> [prev1 EXCEPT !.Revisions = stolen],
      panic |-> FALSE]

\* stepConfig(goal, prev, nowTS): the returned configuration, prev after the
\* call (it is adjusted in place), and whether the call panicked. pc is
\* len(prev.Revisions) on entry, before adjustPercentage re-slices it.
stepConfig(goal, prev0, now) ==
  LET pcLen == Len(prev0.Revisions)
      ret0 == ConfigurationRollout(goal.ConfigurationName, goal.Tag,
                                   goal.Percent, goal.Revisions)
      adj == IF Len(prev0.Revisions) > 0
             THEN adjustPercentage(goal.Percent, prev0)
             ELSE [cr |-> prev0, panic |-> FALSE]
      prev1 == adj.cr
      crash == [ret |-> ret0, prev |-> prev1, panic |-> TRUE]
  IN IF adj.panic THEN crash
     ELSE IF Len(prev1.Revisions) = 0
     THEN [ret |-> ret0, prev |-> prev1, panic |-> FALSE]
     ELSE IF Len(goal.Revisions) = 0 \/ pcLen - 1 >= Len(prev1.Revisions)
     THEN crash  \* goal.Revisions[0] or prev.Revisions[pc-1] out of range
     ELSE IF goal.Revisions[1].RevisionName = prev1.Revisions[pcLen].RevisionName
     THEN continueRollout(ret0, prev1, now)
     ELSE startRollout(ret0, goal, prev1, now)

(***************************************************************************)
(* sortRollout                                                             *)
(***************************************************************************)

\* The less function given to sort.Slice.
less(a, b) ==
  IF a.Tag = b.Tag
  THEN a.ConfigurationName < b.ConfigurationName
  ELSE a.Tag < b.Tag

\* Insert c into the sorted sequence s.
RECURSIVE insertSorted(_, _)
insertSorted(s, c) ==
  IF Len(s) = 0 THEN <<c>>
  ELSE IF less(c, Head(s)) THEN <<c>> \o s
  ELSE <<Head(s)>> \o insertSorted(Tail(s), c)

RECURSIVE sortFrom(_, _, _)
sortFrom(cfgs, k, acc) ==
  IF k > Len(cfgs) THEN acc ELSE sortFrom(cfgs, k + 1, insertSorted(acc, cfgs[k]))

\* sortRollout: the configurations ordered by less. (sort.Slice is not
\* stable; the result is unique because Step emits each (tag, name) of cur
\* at most once.)
\* (sortUnsorted: the result is left in iteration order.)
sortUnsorted(cfgs) == cfgs
sortRollout(cfgs) == sortFrom(cfgs, 1, <<>>)

(***************************************************************************)
(* Step                                                                    *)
(***************************************************************************)

\* currConfigs[t] / prevConfigs[t]: the indices (into Configurations) of the
\* configurations with tag t, in order.
RECURSIVE byTagFrom(_, _, _, _)
byTagFrom(cfgs, t, k, acc) ==
  IF k > Len(cfgs) THEN acc
  ELSE byTagFrom(cfgs, t, k + 1,
                 IF cfgs[k].Tag = t THEN Append(acc, k) ELSE acc)

byTag(cfgs, t) == byTagFrom(cfgs, t, 1, <<>>)

tagsOf(cfgs) == {cfgs[k].Tag : k \in 1..Len(cfgs)}

\* Go's iteration orders of a map with key set S.
mapOrders(S) ==
  {o \in [1..Cardinality(S) -> S] : \A i, j \in 1..Cardinality(S) : o[i] = o[j] => i = j}

\* if prev == nil || len(prev.Configurations) == 0
\* (noPrevNilOnly: only the nil check.)
noPrevNilOnly(p) == p.nil
noPrev(p) == p.nil \/ Len(p.Configurations) = 0

\* if !ok: a new tag was added.
newTag(out, cfgs, ccfgs) == Append(out, cfgs[ccfgs[1]])

\* case j >= len(pcfgs): the new configs added during this reconciliation.
newAfterPrev(out, c) == Append(out, c)

\* case cur < prev: keep a new config if it will receive traffic.
newBeforePrev(out, c) == IF c.Percent # 0 THEN Append(out, c) ELSE out

\* default (cur > prev): a config has been removed during this update.
\* (removedKept: the removed config is emitted.)
removedKept(out, p) == Append(out, p)
removed(out, p) == out

\* The intersect loop over one tag; i and j are the Go indices, acc holds
\* ret, prev's configurations (stepConfig adjusts them in place) and whether
\* a panic has ended the call.
RECURSIVE intersect(_, _, _, _, _, _, _)
intersect(cfgs, ccfgs, pcfgs, i, j, now, acc) ==
  IF acc.panic \/ ~(i < Len(ccfgs)) THEN acc
  ELSE LET c == cfgs[ccfgs[i + 1]] IN
    IF j >= Len(pcfgs)
    THEN intersect(cfgs, ccfgs, pcfgs, i + 1, j, now,
                   [acc EXCEPT !.ret = newAfterPrev(@, c)])
    ELSE LET pi == pcfgs[j + 1]
             p == acc.prev[pi] IN
      IF c.ConfigurationName = p.ConfigurationName
      THEN IF c.Percent > 1
           THEN LET s == stepConfig(c, p, now) IN
                IF s.panic
                THEN [acc EXCEPT !.prev[pi] = s.prev, !.panic = TRUE]
                ELSE intersect(cfgs, ccfgs, pcfgs, i + 1, j + 1, now,
                               [acc EXCEPT !.prev[pi] = s.prev,
                                           !.ret = Append(@, s.ret)])
           ELSE IF c.Percent = 1
           THEN intersect(cfgs, ccfgs, pcfgs, i + 1, j + 1, now,
                          [acc EXCEPT !.ret = Append(@, c)])
           ELSE intersect(cfgs, ccfgs, pcfgs, i + 1, j + 1, now, acc)
      ELSE IF c.ConfigurationName < p.ConfigurationName
      THEN intersect(cfgs, ccfgs, pcfgs, i + 1, j, now,
                     [acc EXCEPT !.ret = newBeforePrev(@, c)])
      ELSE intersect(cfgs, ccfgs, pcfgs, i, j + 1, now,
                     [acc EXCEPT !.ret = removed(@, p)])

\* for t, ccfgs := range currConfigs, in the iteration order `order`.
RECURSIVE overTags(_, _, _, _, _)
overTags(cfgs, order, k, now, acc) ==
  IF acc.panic \/ k > Len(order) THEN acc
  ELSE LET t == order[k]
           ccfgs == byTag(cfgs, t)
           pcfgs == byTag(acc.prev, t) IN
       IF Len(pcfgs) = 0
       THEN overTags(cfgs, order, k + 1, now,
                     [acc EXCEPT !.ret = newTag(@, cfgs, ccfgs)])
       ELSE overTags(cfgs, order, k + 1, now,
                     intersect(cfgs, ccfgs, pcfgs, 0, 0, now, acc))

\* cur.Step(prev, nowTS) with the map iterated in `order`: the returned
\* rollout, prev after the call and whether the call panicked.
Step(c, p, now, order) ==
  IF noPrev(p)
  THEN [ret |-> c, prev |-> p, panic |-> FALSE]
  ELSE LET m == overTags(c.Configurations, order, 1, now,
                         [ret |-> <<>>, prev |-> p.Configurations, panic |-> FALSE])
       IN [ret |-> Rollout(IF m.panic THEN <<>> ELSE sortRollout(m.ret)),
           prev |-> Rollout(m.prev),
           panic |-> m.panic]

(***************************************************************************)
(* Bounds and input sets                                                   *)
(***************************************************************************)

\* Percentages of the rollouts merged by Step range over 0..MaxPct.
MaxPct == 2
\* A rollout handed to Step or Validate holds at most MaxConfigs configurations.
MaxConfigs == 2
\* Timestamps range over 0..MaxTime.
MaxTime == 2
\* A single configuration handed to stepConfig, adjustPercentage or
\* stepRevisions holds at most MaxTarget percent,
MaxTarget == 3
\* in at most MaxPrevRevs (stepConfig) or MaxRevs (adjustPercentage,
\* stepRevisions) revisions,
MaxPrevRevs == 2
MaxRevs == 3
\* with StepSize and StepDuration in 0..MaxStep.
MaxStep == 2
\* adjustPercentage is called at most MaxCalls times in a row.
MaxCalls == 2

Tags == {0, 1}
Names == {1, 2}
RevNames == {"r1", "r2"}
\* Revision names by age, for the lists whose names play no role.
NameByAge == <<"r1", "r2", "r3", "r4", "r5">>

\* No cadence: the zero values of the timing fields.
NoTiming ==
  [Deadline |-> 0, StartTime |-> 0, NextStepTime |-> 0, StepDuration |-> 0, StepSize |-> 0]

withTiming(c, t) ==
  [c EXCEPT !.Deadline = t.Deadline, !.StartTime = t.StartTime,
            !.NextStepTime = t.NextStepTime, !.StepDuration = t.StepDuration,
            !.StepSize = t.StepSize]

\* (tag, name) keys in the order Rollout.Configurations is kept in.
Keys == Tags \X Names
keyLess(a, b) == a[1] < b[1] \/ (a[1] = b[1] /\ a[2] < b[2])
KeySeqs ==
  {ks \in UNION {[1..n -> Keys] : n \in 0..MaxConfigs} :
     \A i \in 1..(Len(ks) - 1) : keyLess(ks[i], ks[i + 1])}

\* A desired configuration: one revision carrying the target's Percent.
desired(key, o) ==
  ConfigurationRollout(key[2], key[1], o.Percent,
                       <<RevisionRollout(o.RevisionName, o.Percent)>>)
DesiredOpts == [Percent : 0..MaxPct, RevisionName : {"r2"}]

\* A previous configuration of the merge: idle (no revision), or settled on
\* one revision.
settled(key, o) ==
  ConfigurationRollout(key[2], key[1], o.Percent,
                       IF o.RevisionName = "" THEN <<>>
                       ELSE <<RevisionRollout(o.RevisionName, o.Percent)>>)
SettledOpts ==
  {[Percent |-> 0, RevisionName |-> ""]} \cup [Percent : {MaxPct}, RevisionName : RevNames]

\* The sum of the percentages of a revision list.
RECURSIVE sumPercent(_)
sumPercent(revs) ==
  IF Len(revs) = 0 THEN 0 ELSE Head(revs).Percent + sumPercent(Tail(revs))

\* Revision lists of at most n revisions with names from names and
\* percentages that sum to one of 0..MaxTarget. Validate checks the sum
\* only, so a single percentage of a hand-edited annotation may be negative.
revisionLists(names, n) ==
  {revs \in UNION {[1..k -> [RevisionName : names, Percent : (-1)..MaxTarget]] : k \in 0..n} :
     sumPercent(revs) \in 0..MaxTarget}

\* The same with the revisions named by age.
agedLists(n) ==
  {[i \in 1..Len(ps) |-> RevisionRollout(NameByAge[i], ps[i])] :
     ps \in {qs \in UNION {[1..k -> 0..MaxTarget] : k \in 0..n} :
               sumPercent([i \in 1..Len(qs) |-> [Percent |-> qs[i]]]) <= MaxTarget}}

\* The timing a persisted configuration can carry: none, a rollout that has
\* started (StartTime stamped by stepConfig) and one whose cadence has been set.
Timings ==
  {NoTiming, [NoTiming EXCEPT !.StartTime = 1]}
  \cup [Deadline : {0, MaxTime}, StartTime : {1}, NextStepTime : 1..MaxTime,
        StepDuration : {1}, StepSize : 1..MaxStep]

\* A persisted configuration that passes Validate: Percent is the sum.
validTarget(revs, t) ==
  withTiming(ConfigurationRollout(1, 0, sumPercent(revs), revs), t)

\* Any timing, for stepRevisions.
Cadences ==
  [Deadline : {0}, StartTime : {0}, NextStepTime : 0..MaxTime,
   StepDuration : 0..MaxStep, StepSize : 0..MaxStep]

\* Rollouts that may or may not pass Validate: percentages around the limit
\* of 100, at most two revisions per configuration.
LimitPcts == {0, 1, 100, 101}
unchecked(key, o) == ConfigurationRollout(key[2], key[1], o.Percent, o.Revisions)
UncheckedOpts ==
  [Percent : LimitPcts,
   Revisions : {<<>>} \cup {<<RevisionRollout("r1", a)>> : a \in LimitPcts}
               \cup {<<RevisionRollout("r1", a), RevisionRollout("r2", b)>> :
                       a \in LimitPcts, b \in {1, 100}}]
NoTarget == ConfigurationRollout(0, 0, 0, <<>>)

(***************************************************************************)
(* Spec: Step merges a desired rollout with a validated previous one       *)
(***************************************************************************)

Init ==
  /\ \E ks \in KeySeqs : \E o \in [1..Len(ks) -> DesiredOpts] :
       cur = Rollout([i \in 1..Len(ks) |-> desired(ks[i], o[i])])
  /\ \/ prev = NilRollout
     \/ \E ks \in KeySeqs : \E o \in [1..Len(ks) -> SettledOpts] :
          prev = Rollout([i \in 1..Len(ks) |-> settled(ks[i], o[i])])
  /\ nowTS \in {0, MaxTime}
  /\ ret = NilRollout
  /\ target = NoTarget
  /\ pc = "start"
  /\ op = ""
  /\ before = prev
  /\ args = <<>>

\* ret := cur.Step(prev, nowTS), the tag map iterated in some order.
CallStep ==
  /\ pc = "start"
  /\ \E order \in mapOrders(tagsOf(cur.Configurations)) :
       LET s == Step(cur, prev, nowTS, order) IN
       /\ ret' = s.ret
       /\ prev' = s.prev
       /\ pc' = IF s.panic THEN "panic" ELSE "done"
       /\ args' = order
  /\ op' = "Step"
  /\ before' = prev
  /\ UNCHANGED <<cur, nowTS, target>>

Next == CallStep

Spec == Init /\ [][Next]_vars

(***************************************************************************)
(* SpecConfig: one desired configuration against its previous state        *)
(***************************************************************************)

InitConfig ==
  /\ \E o \in [Percent : 0..MaxTarget, RevisionName : RevNames] :
       cur = Rollout(<<desired(<<0, 1>>, o)>>)
  /\ \E revs \in revisionLists(RevNames, MaxPrevRevs), t \in Timings :
       prev = Rollout(<<validTarget(revs, t)>>)
  /\ nowTS \in 0..MaxTime
  /\ ret = NilRollout
  /\ target = NoTarget
  /\ pc = "start"
  /\ op = ""
  /\ before = prev
  /\ args = <<>>

\* ret := stepConfig(goal, prev, nowTS) on the two configurations.
CallStepConfig ==
  /\ pc = "start"
  /\ LET s == stepConfig(cur.Configurations[1], prev.Configurations[1], nowTS) IN
     /\ ret' = Rollout(<<s.ret>>)
     /\ prev' = Rollout(<<s.prev>>)
     /\ pc' = IF s.panic THEN "panic" ELSE "done"
  /\ op' = "stepConfig"
  /\ before' = prev
  /\ UNCHANGED <<cur, nowTS, target, args>>

NextConfig == CallStep \/ CallStepConfig

SpecConfig == InitConfig /\ [][NextConfig]_vars

(***************************************************************************)
(* SpecValidate: Validate on a deserialized rollout                        *)
(***************************************************************************)

InitValidate ==
  /\ \E n \in 0..MaxConfigs : \E o \in [1..n -> UncheckedOpts] :
       prev = Rollout([i \in 1..n |-> unchecked(<<0, i>>, o[i])])
  /\ cur = Rollout(<<>>)
  /\ nowTS = 0
  /\ ret = FALSE
  /\ target = NoTarget
  /\ pc = "start"
  /\ op = ""
  /\ before = prev
  /\ args = <<>>

\* ret := prev.Validate(); the receiver is only read.
CallValidate ==
  /\ pc = "start"
  /\ ret' = Validate(prev)
  /\ pc' = "done"
  /\ op' = "Validate"
  /\ before' = prev
  /\ UNCHANGED <<cur, prev, nowTS, target, args>>

NextValidate == CallValidate

SpecValidate == InitValidate /\ [][NextValidate]_vars

(***************************************************************************)
(* SpecAdjust: adjustPercentage called repeatedly on one configuration     *)
(***************************************************************************)

\* before is the list of the configuration's values before each call, args
\* the list of the goals passed.
InitAdjust ==
  /\ \E revs \in agedLists(MaxRevs) : target = validTarget(revs, NoTiming)
  /\ cur = Rollout(<<>>)
  /\ prev = NilRollout
  /\ nowTS = 0
  /\ ret = NilRollout
  /\ pc = "start"
  /\ op = ""
  /\ before = <<>>
  /\ args = <<>>

\* adjustPercentage(goal, &target)
CallAdjust ==
  /\ pc # "panic"
  /\ Len(args) < MaxCalls
  /\ \E goal \in 0..MaxTarget :
       LET a == adjustPercentage(goal, target) IN
       /\ target' = a.cr
       /\ pc' = IF a.panic THEN "panic" ELSE "done"
       /\ args' = Append(args, goal)
  /\ op' = "adjustPercentage"
  /\ before' = Append(before, target)
  /\ UNCHANGED <<cur, prev, nowTS, ret>>

NextAdjust == CallAdjust

SpecAdjust == InitAdjust /\ [][NextAdjust]_vars

(***************************************************************************)
(* SpecRevisions: stepRevisions called repeatedly on one configuration     *)
(***************************************************************************)

\* Whether the call stepRevisions(c, now) gets past the guard.
due(c, now) == now >= c.NextStepTime /\ Len(c.Revisions) >= 2

\* before is the configuration before the last call, nowTS the time passed
\* to it; args is <<t>> once a call before the last one was due, t being the
\* time passed to the latest such call, and <<>> until then.
InitRevisions ==
  /\ \E revs \in agedLists(MaxRevs), t \in Cadences : target = validTarget(revs, t)
  /\ cur = Rollout(<<>>)
  /\ prev = NilRollout
  /\ nowTS = 0
  /\ ret = NilRollout
  /\ pc = "start"
  /\ op = ""
  /\ before = target
  /\ args = <<>>

\* stepRevisions(&target, now)
CallStepRevisions ==
  /\ \E now \in 0..MaxTime :
       /\ target' = stepRevisions(target, now).cr
       /\ nowTS' = now
  /\ args' = IF pc = "done" /\ due(before, nowTS) THEN <<nowTS>> ELSE args
  /\ pc' = "done"
  /\ op' = "stepRevisions"
  /\ before' = target
  /\ UNCHANGED <<cur, prev, ret>>

NextRevisions == CallStepRevisions

SpecRevisions == InitRevisions /\ [][NextRevisions]_vars

(***************************************************************************)
(* SpecObserve: ObserveReady called on a rollout                           *)
(***************************************************************************)

\* ObserveReady is called up to MaxMinStep seconds after a rollout started.
MaxMinStep == 3

\* A target in rollout from r1 to r2, one point moved, with timing t.
inRollout(key, percent, t) ==
  withTiming(ConfigurationRollout(key[2], key[1], percent,
                                  <<RevisionRollout("r1", percent - 1),
                                    RevisionRollout("r2", 1)>>), t)

\* Not in rollout (StartTime 0), started, or with the cadence already set.
ObservedTimings ==
  [Deadline : {0}, StartTime : {0, 1}, NextStepTime : {0},
   StepDuration : {0, 1}, StepSize : {0}]

\* cur is the receiver: one target of any Percent in 2..100, alone or next
\* to a second target that has started a rollout. before is the rollout
\* before the last call, args the times passed so far.
InitObserve ==
  /\ \E percent \in 2..100, t \in ObservedTimings :
       \/ cur = Rollout(<<inRollout(<<0, 1>>, percent, t)>>)
       \/ cur = Rollout(<<inRollout(<<0, 1>>, percent, t),
                          inRollout(<<0, 2>>, MaxTarget, [NoTiming EXCEPT !.StartTime = 1])>>)
  /\ prev = NilRollout
  /\ nowTS = 0
  /\ ret = NilRollout
  /\ target = NoTarget
  /\ pc = "start"
  /\ op = ""
  /\ before = cur
  /\ args = <<>>

\* cur.ObserveReady(now)
CallObserveReady ==
  /\ Len(args) < MaxCalls
  /\ \E now \in 0..(MaxMinStep * Second + 1) :
       /\ cur' = ObserveReady(cur, now)
       /\ nowTS' = now
       /\ args' = Append(args, now)
  /\ pc' = "done"
  /\ op' = "ObserveReady"
  /\ before' = cur
  /\ UNCHANGED <<prev, ret, target>>

NextObserve == CallObserveReady

SpecObserve == InitObserve /\ [][NextObserve]_vars

(***************************************************************************)
(* SpecRollout: a route reconciled again and again                         *)
(***************************************************************************)

\* The clock runs up to MaxClock.
MaxClock == 400

\* The persisted state of the one target, when there is one.
persisted == prev.Configurations[1]
hasTarget(r) == ~r.nil /\ Len(r.Configurations) > 0

\* cur is the desired state of a route with one target, prev the state
\* persisted by the last reconciliation, nowTS the clock. args follows the
\* rollout in flight while the goal stays as it is: "started" once a Step
\* has started it, "observed" once ObserveReady was called after that, and
\* then the number of steps taken at or after their NextStepTime.
InitRollout ==
  /\ \E o \in [Percent : 0..MaxTarget, RevisionName : RevNames] :
       cur = Rollout(<<desired(<<0, 1>>, o)>>)
  /\ prev = NilRollout
  /\ nowTS = 1
  /\ ret = NilRollout
  /\ target = NoTarget
  /\ pc = "start"
  /\ op = ""
  /\ before = prev
  /\ args = [phase |-> "idle", due |-> 0]

\* The desired revision or Percent of the target changes.
Desire ==
  /\ pc # "panic"
  /\ \E o \in [Percent : 0..MaxTarget, RevisionName : RevNames] :
       /\ cur' = Rollout(<<desired(<<0, 1>>, o)>>)
       /\ cur' # cur
  /\ args' = [phase |-> "idle", due |-> 0]
  /\ op' = "Desire"
  /\ UNCHANGED <<prev, nowTS, ret, target, pc, before>>

\* A step of the rollout in flight is due at the time of the clock.
stepDue ==
  /\ hasTarget(prev)
  /\ Len(persisted.Revisions) >= 2
  /\ nowTS >= persisted.NextStepTime

\* Step starts a new rollout: the goal names another revision than the
\* newest persisted one.
starts ==
  /\ hasTarget(prev)
  /\ Len(persisted.Revisions) >= 1
  /\ cur.Configurations[1].Percent > 1
  /\ cur.Configurations[1].Revisions[1].RevisionName #
       persisted.Revisions[Len(persisted.Revisions)].RevisionName

\* ret := cur.Step(prev, nowTS); ret is persisted and is the next prev.
Reconcile ==
  /\ pc # "panic"
  /\ \E order \in mapOrders(tagsOf(cur.Configurations)) :
       LET s == Step(cur, prev, nowTS, order) IN
       /\ ret' = s.ret
       /\ prev' = IF s.panic THEN s.prev ELSE s.ret
       /\ pc' = IF s.panic THEN "panic" ELSE "done"
  /\ args' = IF starts THEN [phase |-> "started", due |-> 0]
             ELSE IF args.phase = "observed" /\ stepDue /\ args.due < MaxTarget
             THEN [args EXCEPT !.due = @ + 1]
             ELSE args
  /\ op' = "Step"
  /\ before' = prev
  /\ UNCHANGED <<cur, nowTS, target>>

\* prev.ObserveReady(nowTS), once the new revision is ready.
Observe ==
  /\ pc # "panic"
  /\ hasTarget(prev)
  /\ prev' = ObserveReady(prev, nowTS)
  /\ args' = IF args.phase = "started"
             THEN [args EXCEPT !.phase = "observed"] ELSE args
  /\ op' = "ObserveReady"
  /\ before' = prev
  /\ UNCHANGED <<cur, nowTS, ret, target, pc>>

\* Time passes: a tick in the first MaxTime ticks, or up to the time of the
\* next step.
Advance ==
  /\ pc # "panic"
  /\ \/ nowTS <= MaxTime /\ nowTS' = nowTS + 1
     \/ /\ hasTarget(prev)
        /\ persisted.NextStepTime > nowTS
        /\ persisted.NextStepTime <= MaxClock
        /\ nowTS' = persisted.NextStepTime
  /\ op' = "Advance"
  /\ UNCHANGED <<cur, prev, ret, target, pc, before, args>>

NextRollout == Desire \/ Reconcile \/ Observe \/ Advance

SpecRollout == InitRollout /\ [][NextRollout]_vars

(***************************************************************************)
(* Properties                                                              *)
(***************************************************************************)

\* The arguments of the last call.
goal == cur.Configurations[1]
prevTarget == before.Configurations[1]
result == ret.Configurations[1]

sameKey(a, b) == a.ConfigurationName = b.ConfigurationName /\ a.Tag = b.Tag

\* Every target of r holds exactly one revision, which carries its Percent.
oneRevisionEach(r) ==
  \A i \in 1..Len(r.Configurations) :
    /\ Len(r.Configurations[i].Revisions) = 1
    /\ r.Configurations[i].Revisions[1].Percent = r.Configurations[i].Percent

\* Step was called with a previous state that holds configurations.
merged == op = "Step" /\ ~before.nil /\ Len(before.Configurations) > 0

\* C1: for every prev that passes Validate and every cur whose targets each
\* hold one revision carrying the target's Percent, Step returns a Rollout
\* and never panics, also when lowering a target's Percent retires revisions
\* of prev before stepConfig looks at prev's newest revision.
C1_StepIsTotal ==
  (op = "Step" /\ (before.nil \/ Validate(before)) /\ oneRevisionEach(cur))
    => pc = "done"

nonNegative(revs) == \A i \in 1..Len(revs) : revs[i].Percent >= 0

C3_NoPrevReturnsCur ==
  (op = "Step" /\ (before.nil \/ Len(before.Configurations) = 0))
    => (pc = "done" /\ ret = cur)

\* prev is an empty, non-nil rollout and cur holds two targets under one tag.
C3_Witness ==
  /\ op = "Step" /\ pc = "done"
  /\ ~before.nil /\ Len(before.Configurations) = 0
  /\ Len(cur.Configurations) = 2
  /\ cur.Configurations[1].Tag = cur.Configurations[2].Tag
  /\ ret = cur

\* C4: with a non-empty prev, Step gives the same outcome whatever the order
\* in which the per-tag groups are iterated, and the returned configurations
\* are in ascending (tag, name) order.
C4_OrderIndependent ==
  merged =>
    /\ \A o \in mapOrders(tagsOf(cur.Configurations)) :
         LET s == Step(cur, before, nowTS, o) IN
         /\ s.panic = (pc = "panic")
         /\ pc = "done" => s.ret = ret
    /\ pc = "done" =>
         \A i \in 1..(Len(ret.Configurations) - 1) :
           ~less(ret.Configurations[i + 1], ret.Configurations[i])

\* The groups were iterated from the larger tag to the smaller, and both
\* groups put a configuration in the result.
C4_Witness ==
  /\ merged /\ pc = "done"
  /\ Len(args) = 2 /\ args[1] > args[2]
  /\ Len(ret.Configurations) = 2
  /\ ret.Configurations[1].Tag < ret.Configurations[2].Tag

\* Configuration c of cur is new under a tag that prev has too.
newUnderKnownTag(c) ==
  /\ \E j \in 1..Len(before.Configurations) : before.Configurations[j].Tag = c.Tag
  /\ \A j \in 1..Len(before.Configurations) : ~sameKey(before.Configurations[j], c)

inResult(c) == \E k \in 1..Len(ret.Configurations) : ret.Configurations[k] = c

\* C5: with a non-empty prev, a configuration present only in cur, under a
\* tag present in both, is in the result as it is if and only if its Percent
\* is not zero, whether its name sorts before a remaining name of prev or
\* all names of prev under that tag have been consumed.
C5_NewKeptIffNonZero ==
  (merged /\ pc = "done") =>
    \A i \in 1..Len(cur.Configurations) :
      LET c == cur.Configurations[i] IN
      newUnderKnownTag(c) => (inResult(c) <=> c.Percent # 0)

\* C6: with a non-empty prev, every target of cur whose tag does not occur in
\* prev is in the result unchanged, also when cur holds several
\* configurations under that new tag.
C6_NewTagKept ==
  (merged /\ pc = "done") =>
    \A i \in 1..Len(cur.Configurations) :
      LET c == cur.Configurations[i] IN
      (\A j \in 1..Len(before.Configurations) : before.Configurations[j].Tag # c.Tag)
        => inResult(c)

noDuplicateKeys(cfgs) ==
  \A i, j \in 1..Len(cfgs) : sameKey(cfgs[i], cfgs[j]) => i = j

sortedWithinTags(cfgs) ==
  \A i, j \in 1..Len(cfgs) :
    (i < j /\ cfgs[i].Tag = cfgs[j].Tag)
      => cfgs[i].ConfigurationName <= cfgs[j].ConfigurationName

\* C7: with a non-empty prev, every (name, tag) pair of the result is a pair
\* of cur, so a target present only in prev yields no entry; and when cur has
\* no duplicate pairs and is sorted by name within each tag, the result has no
\* duplicate pairs either.
C7_OnlyTargetsOfCur ==
  (merged /\ pc = "done") =>
    /\ \A k \in 1..Len(ret.Configurations) :
         \E i \in 1..Len(cur.Configurations) :
           sameKey(ret.Configurations[k], cur.Configurations[i])
    /\ (noDuplicateKeys(cur.Configurations) /\ sortedWithinTags(cur.Configurations))
         => noDuplicateKeys(ret.Configurations)

\* prev holds a name that cur has dropped, under a tag where cur holds a
\* larger name, which is in the result.
C7_Witness ==
  /\ merged /\ pc = "done"
  /\ \E j \in 1..Len(before.Configurations) :
       /\ \A i \in 1..Len(cur.Configurations) :
            ~sameKey(before.Configurations[j], cur.Configurations[i])
       /\ \E k \in 1..Len(ret.Configurations) :
            /\ ret.Configurations[k].Tag = before.Configurations[j].Tag
            /\ ret.Configurations[k].ConfigurationName
                 > before.Configurations[j].ConfigurationName

\* C8: Validate returns true if and only if every target has Percent <= 100
\* and revision percentages that sum to its Percent, and it leaves the
\* rollout as it was.
C8_ValidateIff ==
  op = "Validate" =>
    /\ ret = (\A i \in 1..Len(before.Configurations) :
                /\ before.Configurations[i].Percent <= 100
                /\ sumPercent(before.Configurations[i].Revisions)
                     = before.Configurations[i].Percent)
    /\ prev = before

\* Two targets pass, one of them standing at the limit of 100 with two
\* revisions.
C8_Witness ==
  /\ op = "Validate" /\ ret = TRUE
  /\ Len(prev.Configurations) = 2
  /\ \E i \in 1..2 :
       /\ prev.Configurations[i].Percent = 100
       /\ Len(prev.Configurations[i].Revisions) = 2

\* C9: for a target with at least one revision whose revision percentages sum
\* to its Percent = original, adjustPercentage(goal, cr) followed by
\* adjustPercentage(original, cr) leaves the revision percentages summing to
\* original again.
C9_AdjustRoundTrip ==
  (/\ op = "adjustPercentage" /\ pc = "done" /\ Len(args) = 2
   /\ Len(before[1].Revisions) >= 1
   /\ sumPercent(before[1].Revisions) = before[1].Percent
   /\ args[2] = before[1].Percent)
    => sumPercent(target.Revisions) = before[1].Percent

\* C10: stepRevisions(target, nowTS) changes nothing when nowTS is before
\* target.NextStepTime or the target has fewer than two revisions; and once a
\* call at time t was due, every later call with nowTS < t + StepDuration
\* changes nothing.
C10_NotDueIsNoOp ==
  op = "stepRevisions" =>
    /\ (nowTS < before.NextStepTime \/ Len(before.Revisions) < 2) => target = before
    /\ (args # <<>> /\ nowTS < args[1] + before.StepDuration) => target = before

\* A call that came too early after a due one, on a target that a step would
\* have changed.
C10_Witness ==
  /\ op = "stepRevisions"
  /\ args # <<>> /\ nowTS < args[1] + before.StepDuration
  /\ Len(before.Revisions) >= 2 /\ before.StepSize > 0
  /\ before.Revisions[1].Percent > 0
  /\ target = before

\* C11: for a target whose revision percentages are all >= 0 and sum to its
\* Percent, with StepSize >= 0, after stepRevisions every revision percentage
\* is >= 0, the newest revision holds at most Percent, and the percentages
\* still sum to Percent, also when StepSize exceeds what the older revisions
\* hold and the newest is capped.
C11_StepRevisionsKeepsSum ==
  (/\ op = "stepRevisions"
   /\ nonNegative(before.Revisions)
   /\ sumPercent(before.Revisions) = before.Percent
   /\ before.StepSize >= 0)
    => /\ nonNegative(target.Revisions)
       /\ Len(target.Revisions) > 0
            => target.Revisions[Len(target.Revisions)].Percent <= target.Percent
       /\ sumPercent(target.Revisions) = target.Percent
       /\ target.Percent = before.Percent

\* A due step whose StepSize exceeds what the older revisions hold: they are
\* all retired and the newest revision is capped at Percent.
C11_Witness ==
  /\ op = "stepRevisions"
  /\ due(before, nowTS)
  /\ Len(before.Revisions) = 3
  /\ before.Revisions[1].Percent > 0 /\ before.Revisions[3].Percent > 0
  /\ before.StepSize > before.Percent - before.Revisions[3].Percent
  /\ Len(target.Revisions) = 1
  /\ target.Revisions[1].Percent = before.Percent

\* prev's revisions once stepConfig has redistributed them to goal.Percent.
redistributed == adjustPercentage(goal.Percent, prevTarget).cr.Revisions

\* revs with one point taken from the newest revision that carries traffic.
onePointTaken(revs) ==
  IF \A i \in 1..Len(revs) : revs[i].Percent <= 0 THEN revs
  ELSE LET k == CHOOSE i \in 1..Len(revs) :
                  /\ revs[i].Percent > 0
                  /\ \A j \in (i + 1)..Len(revs) : revs[j].Percent <= 0
       IN [revs EXCEPT ![k].Percent = @ - 1]

\* stepConfig returned for a goal as Step passes it (one revision, Percent
\* > 1) that names another revision than prev's newest one.
newRevision ==
  /\ op = "stepConfig" /\ pc = "done"
  /\ Len(goal.Revisions) = 1 /\ goal.Percent > 1
  /\ Len(prevTarget.Revisions) > 0
  /\ goal.Revisions[1].RevisionName #
       prevTarget.Revisions[Len(prevTarget.Revisions)].RevisionName

\* C12: when stepConfig returns for a prev with revisions and a desired
\* revision whose name differs from prev's newest revision, the result has
\* StartTime = nowTS and StepDuration = StepSize = NextStepTime = 0; its
\* revisions are prev's (as redistributed to goal.Percent) with exactly one
\* point taken from the newest one that carries traffic (Percent > 0), the
\* revisions left at 0% dropped and the others in their order, followed by
\* the desired revision with exactly 1%.
C12_NewRolloutStart ==
  newRevision =>
    LET kept == SelectSeq(onePointTaken(redistributed), LAMBDA r : r.Percent # 0)
        n == Len(result.Revisions)
    IN /\ result.StartTime = nowTS
       /\ result.StepDuration = 0 /\ result.StepSize = 0 /\ result.NextStepTime = 0
       /\ n = Len(kept) + 1
       /\ SubSeq(result.Revisions, 1, n - 1) = kept
       /\ \A i \in 1..n : result.Revisions[i].Percent # 0
       /\ result.Revisions[n] = RevisionRollout(goal.Revisions[1].RevisionName, 1)

\* A new rollout started at a time after 0 on a prev of two revisions whose
\* newest held the one point that was taken: it is dropped, the older one
\* survives in front of the desired revision.
C12_Witness ==
  /\ newRevision
  /\ nowTS > 0 /\ result.StartTime = nowTS
  /\ Len(prevTarget.Revisions) = 2 /\ prevTarget.Percent = goal.Percent
  /\ prevTarget.Revisions[2].Percent = 1
  /\ Len(result.Revisions) = 2
  /\ result.Revisions[1] = prevTarget.Revisions[1]
  /\ result.Revisions[2].Percent = 1

\* The smaller of two numbers.
min(a, b) == IF a < b THEN a ELSE b

\* stepConfig returned on the continuing path at a time when a step is due:
\* the desired revision is prev's newest, prev holds two or more revisions
\* (none negative) that sum to its Percent, which the goal keeps.
continuingDue ==
  /\ op = "stepConfig" /\ pc = "done"
  /\ Len(goal.Revisions) = 1 /\ goal.Percent > 1
  /\ Len(prevTarget.Revisions) >= 2
  /\ nonNegative(prevTarget.Revisions)
  /\ sumPercent(prevTarget.Revisions) = prevTarget.Percent
  /\ goal.Percent = prevTarget.Percent
  /\ goal.Revisions[1].RevisionName =
       prevTarget.Revisions[Len(prevTarget.Revisions)].RevisionName
  /\ nowTS >= prevTarget.NextStepTime

\* C14: in stepConfig, when the desired revision is prev's newest, prev holds
\* at least two revisions with unchanged Percent and nowTS >= NextStepTime,
\* the newest revision's percentage has grown by min(prev.StepSize, total of
\* the older revisions) and the result carries prev's Deadline, StartTime,
\* StepDuration and StepSize.
C14_ContinuingStepAdvances ==
  continuingDue =>
    LET n == Len(prevTarget.Revisions)
        newest == prevTarget.Revisions[n]
        older == prevTarget.Percent - newest.Percent
        m == Len(result.Revisions)
    IN /\ m >= 1
       /\ result.Revisions[m].RevisionName = newest.RevisionName
       /\ result.Revisions[m].Percent = newest.Percent + min(prevTarget.StepSize, older)
       /\ result.Deadline = prevTarget.Deadline
       /\ result.StartTime = prevTarget.StartTime
       /\ result.StepDuration = prevTarget.StepDuration
       /\ result.StepSize = prevTarget.StepSize

\* The percentage revision name holds in revs; 0 when it is not there.
percentOf(revs, name) ==
  IF \E i \in 1..Len(revs) : revs[i].RevisionName = name
  THEN (CHOOSE r \in {revs[i] : i \in 1..Len(revs)} : r.RevisionName = name).Percent
  ELSE 0

retired(revs, name) == \A i \in 1..Len(revs) : revs[i].RevisionName # name

\* C15: a due stepRevisions call on a target with three or more revisions
\* that all carry traffic takes from the oldest revisions first: a revision
\* older than the newest is reduced only if every revision older than it is
\* retired by that step.
C15_OldestFirst ==
  (/\ op = "stepRevisions" /\ due(before, nowTS)
   /\ Len(before.Revisions) >= 3
   /\ \A i \in 1..Len(before.Revisions) : before.Revisions[i].Percent > 0
   /\ sumPercent(before.Revisions) = before.Percent)
    => \A i \in 1..(Len(before.Revisions) - 1) :
         percentOf(target.Revisions, before.Revisions[i].RevisionName)
             < before.Revisions[i].Percent
           => \A j \in 1..(i - 1) :
                retired(target.Revisions, before.Revisions[j].RevisionName)

\* C16: adjustPercentage(goal, cr) on a target with at least one revision
\* whose revision percentages sum to cr.Percent: on an increase only the
\* newest revision changes, growing by the whole difference; on a decrease to
\* goal > 0 the result is a suffix of the revision list of which at most the
\* first revision has changed, to a smaller percentage still > 0; in both
\* cases the percentages then sum to goal; goal = 0 clears the revisions.
C16_AdjustFrame ==
  (/\ op = "adjustPercentage" /\ Len(args) = 1
   /\ Len(before[1].Revisions) >= 1
   /\ sumPercent(before[1].Revisions) = before[1].Percent)
    => LET old == before[1].Revisions
           new == target.Revisions
           n == Len(old)
           m == Len(new)
           g == args[1]
       IN /\ pc = "done"
          /\ g = 0 => new = <<>>
          /\ g > before[1].Percent =>
               /\ new = [old EXCEPT ![n].Percent = @ + (g - before[1].Percent)]
               /\ sumPercent(new) = g
          /\ (g > 0 /\ g < before[1].Percent) =>
               /\ m >= 1 /\ m <= n
               /\ \A i \in 2..m : new[i] = old[n - m + i]
               /\ new[1].RevisionName = old[n - m + 1].RevisionName
               /\ \/ new[1].Percent = old[n - m + 1].Percent
                  \/ (new[1].Percent > 0 /\ new[1].Percent < old[n - m + 1].Percent)
               /\ sumPercent(new) = g

\* A decrease that retired the oldest revision and reduced the next one.
C16_Witness ==
  /\ op = "adjustPercentage" /\ pc = "done" /\ Len(args) = 1
  /\ args[1] > 0 /\ args[1] < before[1].Percent
  /\ Len(before[1].Revisions) = 3 /\ Len(target.Revisions) = 2
  /\ before[1].Revisions[1].Percent > 0
  /\ target.Revisions[1].Percent < before[1].Revisions[2].Percent
  /\ target.Revisions[2] = before[1].Revisions[3]

\* C19: Step(cur, prev, nowTS) does not modify prev: after the call every
\* target of prev has the revisions, percentages and timing it had before,
\* so a prev that passed Validate still passes it.
C19_StepLeavesPrev ==
  (op = "Step" /\ pc = "done" /\ ~before.nil)
    => /\ prev = before
       /\ Validate(before) => Validate(prev)

\* Target i of the receiver was in rollout without a cadence before the
\* last ObserveReady call.
unobserved(i) ==
  /\ before.Configurations[i].StartTime > 0
  /\ before.Configurations[i].StepDuration = 0

\* C17: for every target with StartTime > 0 and StepDuration = 0,
\* ObserveReady(nowTS) stores NextStepTime = nowTS + the StepDuration it
\* stores, in the unit of nowTS, the cadence being the one for minStepSec =
\* max(1, nowTS - StartTime), and changes no other field; the other targets
\* are left unchanged.
C17_ObserveReadyStoresCadence ==
  op = "ObserveReady" =>
    \A i \in 1..Len(before.Configurations) :
      LET b == before.Configurations[i]
          a == cur.Configurations[i]
          m == IF nowTS - b.StartTime < 1 THEN 1 ELSE nowTS - b.StartTime
      IN IF unobserved(i)
         THEN /\ a.NextStepTime = nowTS + a.StepDuration
              /\ a.StepDuration = stepDuration(b, m, durationSecs)
              /\ a.StepSize = stepSize(b, m, durationSecs)
              /\ a = [b EXCEPT !.NextStepTime = a.NextStepTime,
                               !.StepDuration = a.StepDuration,
                               !.StepSize = a.StepSize]
         ELSE a = b

\* C18: whenever ObserveReady computes the cadence of a target with
\* 2 <= Percent <= 100, the stored StepSize and StepDuration are both at
\* least 1.
C18_CadenceMovesTraffic ==
  op = "ObserveReady" =>
    \A i \in 1..Len(before.Configurations) :
      (/\ unobserved(i)
       /\ before.Configurations[i].Percent >= 2
       /\ before.Configurations[i].Percent <= 100)
        => /\ cur.Configurations[i].StepSize >= 1
           /\ cur.Configurations[i].StepDuration >= 1

\* The persisted target holds the desired revision alone, at full Percent.
rolledOut ==
  /\ hasTarget(prev)
  /\ Len(persisted.Revisions) = 1
  /\ persisted.Revisions[1] = cur.Configurations[1].Revisions[1]

\* C13, on finite runs: the desired revision and Percent (> 1) stay fixed
\* after a new revision started a rollout, ObserveReady is called, and Step
\* is called with each result persisted as the next prev; once as many steps
\* as the target has percentage points were taken at or after their
\* NextStepTime, the target holds the desired revision alone with the full
\* Percent.
C13_RolloutCompletes ==
  (/\ pc = "done" /\ args.phase = "observed"
   /\ cur.Configurations[1].Percent > 1
   /\ args.due >= cur.Configurations[1].Percent)
    => rolledOut

\* C20: after every Step of a sequence of reconciliations, the revision
\* names within a target are pairwise distinct and the newest revision is
\* the desired one, also after the desired revision switched back to an
\* older revision that is still in flight.
C20_DistinctNewestDesired ==
  (op = "Step" /\ pc = "done") =>
    \A k \in 1..Len(ret.Configurations) :
      LET revs == ret.Configurations[k].Revisions IN
      /\ \A i, j \in 1..Len(revs) :
           i # j => revs[i].RevisionName # revs[j].RevisionName
      /\ Len(revs) > 0 =>
           revs[Len(revs)].RevisionName = cur.Configurations[1].Revisions[1].RevisionName

====
